---- MODULE Spec2Model ----
(***************************************************************************)
(* ChronoBot (chromie.py): the event store, the commands that mutate it    *)
(* and the periodic sweep update_countdowns, as asyncio runs them: one     *)
(* thread, a coroutine runs until it reaches an await, and any other       *)
(* coroutine may run while it is suspended there.  An action of this model *)
(* is one such run of one coroutine from an await (or its start) to its    *)
(* next await (or its end).                                                *)
(*                                                                         *)
(* Python objects are modelled with their identity where the code shares   *)
(* them: an event dict is an entry of heap (its key is the object), a      *)
(* guild's "events" list holds keys, and the sweep keeps the references it *)
(* took before an await (the list it iterates, the event, the announced    *)
(* list).  None is 0, as Python's truth tests in the code treat them.      *)
(***************************************************************************)
EXTENDS Integers, Sequences, FiniteSets, TLC

(* ------------------------------ bounds -------------------------------- *)

\* event objects alive at once
MaxIds == 2
\* events a guild's list may hold
MaxEvents == 2
\* clock readings per day, and how many times the clock advances
StepsPerDay == 2
MaxTicks == 3
\* the notification log counts 0, 1, ..., SentCap ("SentCap or more")
SentCap == 2
\* process restarts
MaxCrashes == 1
\* summary messages the Notifier holds at once (pinned or referred to)
MaxMsgs == 3
\* handlers of on_guild_join and resendsetup suspended at once, per guild
MaxJoins == 2

(* --------------------------- program constants ------------------------ *)

DAY == 86400
DEFAULT_MILESTONES == <<100, 50, 30, 14, 7, 2, 1, 0>>

Guilds == {1}
\* the text channel a guild's commands are issued in
ChannelOf(g) == g
None == 0

ClockStep == DAY \div StepsPerDay
\* instants addevent / editevent can be given (already parsed to epoch seconds)
Instants == {ClockStep, DAY + ClockStep}
\* time zone names settimezone can be given: two that ZoneInfo knows, one it
\* does not
ZoneNames == {"America/Chicago", "Europe/London", "Mars/Phobos"}
ZoneInfo == {"America/Chicago", "Europe/London"}
\* days_left values testreminder can be given
TestDays == {-1, 0, 7}
\* names addevent and editevent can be given: none, a blank, a word
Names == {"", " ", "party"}
\* what can stand between the commas of the milestones argument, stripped
Tokens == {"0", "1", "01", "-1", "x", ""}
\* more of them: repeats, two spellings of a number, blanks, a negative value,
\* a word, nothing
TypedMilestones ==
    {<<"1", "0", "01">>, <<"0", "1">>, <<"0", "0">>, <<"", "1", "">>, <<"1", "x">>,
     <<"-1", "1">>, <<"">>, <<>>}
\* milestone lists setmilestones can be given (as typed, split at the commas)
RawMilestones == {<<"1">>, <<"1", "01">>, <<"0", "-1">>, <<"x">>, <<>>}

(* ------------------------------ helpers -------------------------------- *)

Range(s) == {s[k] : k \in 1..Len(s)}
In(x, s) == x \in Range(s)
Min(a, b) == IF a < b THEN a ELSE b
\* [m for m in s if P(m)]
RECURSIVE Filter(_, _)
Filter(s, keep) ==
    IF s = <<>> THEN <<>>
    ELSE (IF Head(s) \in keep THEN <<Head(s)>> ELSE <<>>) \o Filter(Tail(s), keep)
\* (list.pop(i) for 1-based i)
RemoveAtNext(s, i) == SubSeq(s, 1, i) \o SubSeq(s, i + 2, Len(s))
\* list.pop(i - 1) for 1-based i
RemoveAt(s, i) == SubSeq(s, 1, i - 1) \o SubSeq(s, i + 1, Len(s))

VARIABLES
    guilds,     \* state["guilds"]: guild id -> guild dict (events: list of event objects)
    heap,       \* the event dicts that are reachable, by object
    disk,       \* DATA_FILE: what the last save_state wrote
    now,        \* the wall clock, epoch seconds
    sw,         \* the coroutine of update_countdowns
    cmd,        \* the coroutine of the command handler that runs or ran last
    cmd2,       \* the coroutine of another command handler, suspended meanwhile
    up,         \* the process got through module startup and runs
    ready,      \* on_ready has run since the process started
    onb,        \* per guild: the handlers suspended in send_onboarding_for_guild
                \* (dm: in contact_user.send, fb: in fallback_channel.send) and,
                \* as a log, told: onboarding messages delivered since welcomed
                \* was last reset
    call,       \* a call of compute_time_left by itself: its inputs and result
    sent,       \* log: milestone messages delivered, per event and day-offset
    seen,       \* log: milestone checks that found day-offset d a milestone
    since,      \* log: sent, counted since the event's announced list was last cut
    pass,       \* log: alerts delivered per event in the sweep pass under way
    whole,      \* log: the events listed ever since the sweep pass under way began
    ticks,      \* how often the clock advanced
    crashes,    \* how often the process restarted
    born,       \* log: the listed event objects in the order addevent created them
    pins,       \* Notifier: the summary messages the bot sent that are pinned now
    track       \* the logs that are kept (fixed per specification)

vars ==
    <<guilds, heap, disk, now, sw, cmd, cmd2, sent, seen, since, pass, whole, ticks, crashes,
      pins, born, up, call, ready, onb, track>>

(* --------------------------- pure functions ---------------------------- *)

\* compute_time_left: (days_left, event_passed) of an instant at clock reading t.
\* The description text is not modelled.
\* (the comparison of line 272 as <)
compute_time_left_strict(ts, t) ==
    LET total_seconds == ts - t IN
    IF total_seconds < 0 THEN [days |-> 0, passed |-> TRUE]
    ELSE [days |-> total_seconds \div DAY, passed |-> FALSE]

compute_time_left(ts, t) ==
    LET total_seconds == ts - t IN
    IF total_seconds <= 0 THEN [days |-> 0, passed |-> TRUE]
    ELSE [days |-> total_seconds \div DAY, passed |-> FALSE]

\* datetime.now(tz) reads the clock below the second (microseconds; here in
\* thousandths): a reading is t seconds and frac thousandths
MILLI == 1000
\* int(delta.total_seconds()) (270) for the instant ts, in whole seconds, at
\* the reading t, frac: int() truncates towards zero
total_seconds(ts, t, frac) ==
    LET delta == (ts - t) * MILLI - frac
    IN IF delta >= 0 THEN delta \div MILLI ELSE -((-delta) \div MILLI)
\* compute_time_left at such a reading: lines 272-289 on that total_seconds
compute_time_left_at(ts, t, frac) == compute_time_left(total_seconds(ts, t, frac), 0)

\* list.sort(key=timestamp) is stable: x goes after every element that is not later
InsertSorted(s, x, h) ==
    LET p == Cardinality({k \in 1..Len(s) : h[s[k]].ts <= h[x].ts})
    IN SubSeq(s, 1, p) \o <<x>> \o SubSeq(s, p + 1, Len(s))

RECURSIVE sort_events(_, _)
sort_events(s, h) ==
    IF s = <<>> THEN <<>>
    ELSE InsertSorted(sort_events(SubSeq(s, 1, Len(s) - 1), h), s[Len(s)], h)

\* de-dupe while preserving order
RECURSIVE Dedupe(_, _)
Dedupe(s, got) ==
    IF s = <<>> THEN <<>>
    ELSE IF Head(s) \in got THEN Dedupe(Tail(s), got)
    ELSE <<Head(s)>> \o Dedupe(Tail(s), got \cup {Head(s)})

\* str.strip() on the names of the model
strip(s) == IF s = " " THEN "" ELSE s

\* int(p) of a token: the integer it spells, or ValueError
IsInt(p) == p \in {"0", "1", "01", "-1"}
int(p) == CASE p = "0" -> 0 [] p = "1" -> 1 [] p = "01" -> 1 [] p = "-1" -> -1

\* (_parse_milestones without the de-duplication of lines 779-785)
parse_milestones_all(raw) ==
    LET parts == SelectSeq(raw, LAMBDA p : p # "")
    IN IF \E k \in 1..Len(parts) : ~IsInt(parts[k])
       THEN [ok |-> FALSE, ms |-> <<>>]
       ELSE LET ms == [k \in 1..Len(parts) |-> int(parts[k])]
            IN IF ms = <<>> \/ (\E k \in 1..Len(ms) : ms[k] < 0)
               THEN [ok |-> FALSE, ms |-> <<>>]
               ELSE [ok |-> TRUE, ms |-> ms]

\* _parse_milestones on the tokens typed: None for a token that is no integer,
\* for an empty list and for a negative value
parse_milestones(raw) ==
    LET parts == SelectSeq(raw, LAMBDA p : p # "")
    IN IF \E k \in 1..Len(parts) : ~IsInt(parts[k])
       THEN [ok |-> FALSE, ms |-> <<>>]
       ELSE LET ms == [k \in 1..Len(parts) |-> int(parts[k])]
            IN IF ms = <<>> \/ (\E k \in 1..Len(ms) : ms[k] < 0)
               THEN [ok |-> FALSE, ms |-> <<>>]
               ELSE [ok |-> TRUE, ms |-> Dedupe(ms, {})]

(* ------------------------------ the store ------------------------------ *)

Ids == 1..MaxIds

\* get_guild_state's new guild dict
NewGuild ==
    [channel |-> None, pinned |-> None, events |-> <<>>, timezone |-> "America/Chicago",
     welcomed |-> FALSE]
\* addevent's new event dict ("silenced" is absent, which reads as false)
NewEvent(ts, name) ==
    [name |-> name, ts |-> ts, ms |-> DEFAULT_MILESTONES, ann |-> <<>>, sil |-> FALSE]

EmptyStore == [order |-> <<>>, st |-> <<>>]
Created(gs) == DOMAIN gs.st

\* get_guild_state(g): the guild dict, created on first reference
get_guild_state(gs, g) ==
    IF g \in Created(gs) THEN gs
    ELSE [order |-> Append(gs.order, g),
          st |-> [x \in Created(gs) \cup {g} |->
                    IF x = g THEN NewGuild ELSE gs.st[x]]]

\* the event objects some guild's list holds
Listed(gs) == UNION {Range(gs.st[g].events) : g \in Created(gs)}

\* (no sort)
SortGuildNot(gs, h, g) == gs
\* sort_events(guild_state) on guild g
SortGuild(gs, h, g) ==
    [gs EXCEPT !.st[g].events = sort_events(gs.st[g].events, h)]

\* json.dump(state): the guilds with their events written out by value, a
\* JSON map of the documented shape
Snapshot(gs, h) == [form |-> "map", gs |-> gs, h |-> [e \in Listed(gs) |-> h[e]]]

\* what DATA_FILE can hold instead: no file; text that is not JSON; JSON that
\* is not a map (a list, a number); a map whose "guilds" is not a map; a map
\* whose "guilds" has a value that is not a map
Malformed == {"missing", "unparseable", "not_map", "guilds_not_map", "guild_not_map"}
Unreadable(form) == [form |-> form, gs |-> EmptyStore, h |-> <<>>]

\* load_state: a missing file and a json.load that raises give {}; then
\* data.setdefault (81-82), which raises on what is not a map
load_state(d) ==
    CASE d.form \in {"missing", "unparseable"} ->
             [raised |-> FALSE, form |-> "map", gs |-> EmptyStore, h |-> <<>>]
      [] d.form = "not_map" ->
             [raised |-> TRUE, form |-> d.form, gs |-> EmptyStore, h |-> <<>>]
      [] OTHER -> [raised |-> FALSE, form |-> d.form, gs |-> d.gs, h |-> d.h]

(* ------------------------- Notifier and objects ------------------------ *)

\* the id of a message the Notifier creates: one that nothing refers to yet
FreshMsg(gs, s, c) ==
    LET used == {gs.st[g].pinned : g \in Created(gs)} \cup pins
                  \cup {s.msg, c.msg, c.old, cmd2.msg, cmd2.old}
    IN CHOOSE n \in 1..(Cardinality(used) + 1) :
         n \notin used /\ \A m \in 1..(n - 1) : m \in used

\* a new event object
FreshId(h) == CHOOSE e \in Ids \ DOMAIN h : \A x \in Ids \ DOMAIN h : e <= x

(* ------------------------------ the sweep ------------------------------ *)

\* update_countdowns not running.  pc: the await the coroutine is suspended in;
\* gl, gi: list(guilds.items()) and the position in it; i: position of the for
\* loop over the events; det, own: the list iterated, when the guild's "events"
\* no longer refers to it; ev, d, ann: the event, days_left and the announced
\* list of the milestone being sent; ok: whether that send succeeds; msg: the
\* summary message being fetched (pinned_id) or just sent.
SwIdle ==
    [pc |-> "idle", gl |-> <<>>, gi |-> 0, i |-> 0, det |-> FALSE, own |-> <<>>,
     ev |-> 0, d |-> 0, ann |-> <<>>, ok |-> TRUE, msg |-> None]

\* an exception left update_countdowns: the loop task has ended
SwFailed == [SwIdle EXCEPT !.pc = "failed"]
\* the tasks.loop object as line 392 creates it: no task, start() not called
SwStopped == [SwIdle EXCEPT !.pc = "stopped"]

\* no command handler suspended.  g, chan: the guild and channel of the rebuild;
\* old: old_id; embed: the embed built; msg: the message sent
CmdIdle ==
    [pc |-> "idle", g |-> 0, chan |-> None, old |-> None, embed |-> None, msg |-> None]

SwGuild(s) == s.gl[s.gi]
\* the list object the sweep's for loop iterates
SwList(gs, s) == IF s.det THEN s.own ELSE gs.st[SwGuild(s)].events

\* the event objects the sweep still refers to
SwRefs(s) ==
    (IF s.pc = "send_ms" THEN {s.ev} ELSE {}) \cup (IF s.det THEN Range(s.own) ELSE {})

\* objects nothing refers to are gone
Collect(h, gs, s) == [e \in (Listed(gs) \cup SwRefs(s)) \cap DOMAIN h |-> h[e]]

\* lines 417-428: the milestone check of one event gets as far as line 428 and
\* finds days_left among the milestones
MilestoneSeen(ev, t) ==
    LET tl == compute_time_left(ev.ts, t) IN
    ~tl.passed /\ tl.days >= 0 /\ ~ev.sil /\ In(tl.days, ev.ms)

\* (the check without lines 425-426)
MilestoneDueSilenced(ev, t) ==
    LET tl == compute_time_left(ev.ts, t) IN
    ~tl.passed /\ tl.days >= 0 /\ In(tl.days, ev.ms) /\ ~In(tl.days, ev.ann)

\* (the check without "not in announced" on line 428)
MilestoneDueAgain(ev, t) ==
    LET tl == compute_time_left(ev.ts, t) IN
    ~tl.passed /\ tl.days >= 0 /\ ~ev.sil /\ In(tl.days, ev.ms)

\* lines 417-428: the milestone check of one event finds a milestone to send
MilestoneDue(ev, t) ==
    LET tl == compute_time_left(ev.ts, t) IN
    ~tl.passed /\ tl.days >= 0 /\ ~ev.sil
    /\ In(tl.days, ev.ms) /\ ~In(tl.days, ev.ann)

\* the first position from i on whose event is due, 0 when the loop runs out
NextDue(L, h, i, t) ==
    LET S == {j \in i..Len(L) : MilestoneDue(h[L[j]], t)}
    IN IF S = {} THEN 0 ELSE CHOOSE j \in S : \A k \in S : j <= k

\* (the guild loop without the checks of lines 399-405)
EnterGuildsAnyway(gs, h, gl, k) ==
    IF k > Len(gl) THEN [gs |-> gs, sw |-> SwIdle, obs |-> {}]
    ELSE LET g == gl[k]
             s1 == SortGuild(gs, h, g)
         IN [gs |-> s1, obs |-> {},
             sw |-> [SwIdle EXCEPT
                       !.pc = IF s1.st[g].pinned # None THEN "fetch" ELSE "send_embed",
                       !.gl = gl, !.gi = k, !.msg = s1.st[g].pinned]]

\* lines 395-408: the guild loop from position k up to its next await
RECURSIVE EnterGuilds(_, _, _, _)
EnterGuilds(gs, h, gl, k) ==
    IF k > Len(gl) THEN [gs |-> gs, sw |-> SwIdle, obs |-> {}]
    ELSE LET g == gl[k]
             s1 == SortGuild(gs, h, g)
         IN IF s1.st[g].channel = None THEN EnterGuilds(s1, h, gl, k + 1)
            ELSE [gs |-> s1, obs |-> {},
                  sw |-> [SwIdle EXCEPT
                            !.pc = IF s1.st[g].pinned # None THEN "fetch" ELSE "send_embed",
                            !.gl = gl, !.gi = k, !.msg = s1.st[g].pinned]]

\* lines 416-435: the for loop over the events from position i up to its next
\* await: the send of the first milestone due, or the next guild's await
MilestoneLoop(gs, h, s, i, t, ok) ==
    LET L == SwList(gs, s)
        j == NextDue(L, h, i, t)
        last == IF j = 0 THEN Len(L) ELSE j
        obs == {<<L[k], compute_time_left(h[L[k]].ts, t).days>> :
                  k \in {x \in i..last : MilestoneSeen(h[L[x]], t)}}
    IN IF j = 0 THEN [EnterGuilds(gs, h, s.gl, s.gi + 1) EXCEPT !.obs = obs]
       ELSE [gs |-> gs, obs |-> obs,
             sw |-> [s EXCEPT !.pc = "send_ms", !.i = j, !.ev = L[j],
                       !.d = compute_time_left(h[L[j]].ts, t).days,
                       !.ann = h[L[j]].ann, !.ok = ok, !.msg = None]]

\* the logs: how often (up to SentCap) a milestone message for day-offset d of
\* event e was delivered, and how often a milestone check of e that got as far
\* as line 428 found its days_left d among the milestones
Count(log, e, d) == IF <<e, d>> \in DOMAIN log THEN log[<<e, d>>] ELSE 0
Bumped(log, ks) ==
    [k \in DOMAIN log \cup ks |->
        IF k \in ks THEN Min(Count(log, k[1], k[2]) + 1, SentCap) ELSE log[k]]
Delivered(s) == IF s.pc = "send_ms" /\ s.ok THEN {<<s.ev, s.d>>} ELSE {}
\* the log of the objects that are left
Pruned(log, h) == [k \in {x \in DOMAIN log : x[1] \in DOMAIN h} |-> log[k]]
\* the log of the pass, per event object: kept for the objects that are left,
\* and with the alert s delivers counted (up to SentCap)
\* the events of the log that are still listed
WholeKept(log, gs) == log \cap Listed(gs)
PassKept(log, h) == [e \in DOMAIN log \cap DOMAIN h |-> log[e]]
PassBumped(log, s) ==
    IF s.pc = "send_ms" /\ s.ok
    THEN [e \in DOMAIN log \cup {s.ev} |->
            IF e = s.ev THEN Min((IF e \in DOMAIN log THEN log[e] ELSE 0) + 1, SentCap)
            ELSE log[e]]
    ELSE log

\* the insertion log after a command: the events still listed in gs, then the
\* one the command added
Reborn(log, gs) ==
    LET new == Listed(gs) \ Range(log)
    IN Filter(log, Listed(gs)) \o (IF new = {} THEN <<>> ELSE <<CHOOSE e \in new : TRUE>>)

\* the sweep goes on from r (a result of EnterGuilds or MilestoneLoop)
SweepGoes(r, h) ==
    /\ guilds' = r.gs
    /\ sw' = r.sw
    /\ heap' = Collect(h, r.gs, r.sw)
    /\ sent' = Pruned(IF "sent" \in track THEN Bumped(sent, Delivered(r.sw)) ELSE sent, heap')
    /\ seen' = Pruned(IF "seen" \in track THEN Bumped(seen, r.obs) ELSE seen, heap')
    /\ since' = Pruned(IF "since" \in track THEN Bumped(since, Delivered(r.sw)) ELSE since,
                       heap')
    /\ pass' = PassKept(IF "pass" \in track
                        THEN PassBumped(IF sw.pc = "idle" THEN <<>> ELSE pass, r.sw)
                        ELSE pass, heap')
    /\ whole' = IF "whole" \in track
                THEN (IF sw.pc = "idle" THEN Listed(r.gs) ELSE WholeKept(whole, r.gs))
                ELSE whole

\* the loop starts an iteration: no coroutine of it is suspended
SweepStart ==
    /\ up
    /\ sw.pc = "idle"
    /\ SweepGoes(EnterGuilds(guilds, heap, guilds.order, 1), heap)
    /\ UNCHANGED <<disk, now, cmd, ticks, crashes, pins, born, cmd2, up, call, ready, onb,
                   track>>

\* get_or_create_pinned_message resumes from channel.fetch_message (366-371);
\* found: back in update_countdowns, which builds the embed and awaits the edit
SweepFetched(outcomes) ==
    /\ sw.pc = "fetch"
    /\ \E o \in outcomes :
         IF o = "error"
         THEN sw' = SwFailed /\ guilds' = guilds /\ pins' = pins
         ELSE /\ sw' = [sw EXCEPT !.pc = IF o = "found" THEN "edit" ELSE "send_embed",
                               !.msg = None]
              /\ guilds' = SortGuild(guilds, heap, SwGuild(sw))
              \* NotFound: the message was deleted, it is pinned no more
              /\ pins' = IF o = "found" THEN pins ELSE pins \ {sw.msg}
    /\ UNCHANGED <<heap, disk, now, cmd, sent, seen, since, pass, whole, ticks, crashes, born,
                   cmd2, up, call, ready, onb, track>>

\* ... resumes from channel.send(embed) (374) and awaits msg.pin()
SweepEmbedSent(oks) ==
    /\ sw.pc = "send_embed"
    /\ FreshMsg(guilds, sw, cmd) <= MaxMsgs
    /\ \E ok \in oks :
         sw' = IF ok THEN [sw EXCEPT !.pc = "pin", !.msg = FreshMsg(guilds, sw, cmd)]
               ELSE SwFailed
    /\ UNCHANGED <<guilds, heap, disk, now, cmd, sent, seen, since, pass, whole, ticks, crashes,
                   pins, born, cmd2, up, call, ready, onb, track>>

\* ... resumes from msg.pin(), whose failure is caught (376-385); then the embed
\* is built and pinned.edit awaited (409-411)
SweepPinned(oks) ==
    /\ sw.pc = "pin"
    /\ \E ok \in oks : pins' = IF ok THEN pins \cup {sw.msg} ELSE pins
    /\ LET g == SwGuild(sw)
           g1 == [guilds EXCEPT !.st[g].pinned = sw.msg]
       IN /\ disk' = Snapshot(g1, heap)
          /\ guilds' = SortGuild(g1, heap, g)
    /\ sw' = [sw EXCEPT !.pc = "edit", !.msg = None]
    /\ UNCHANGED <<heap, now, cmd, sent, seen, since, pass, whole, ticks, crashes, born, cmd2,
                   up, call, ready, onb, track>>

\* update_countdowns resumes from pinned.edit, whose failure is caught (410-413),
\* and runs the milestone checks up to the first send
SweepEdited(oks) ==
    /\ sw.pc = "edit"
    /\ \E ok \in oks :
         SweepGoes(MilestoneLoop(guilds, heap, sw, 1, now, ok), heap)
    /\ UNCHANGED <<disk, now, cmd, ticks, crashes, pins, born, cmd2, up, call, ready, onb,
                   track>>

\* (without the append of line 437)
RecordAnnouncedNot(h, s) == h
\* lines 437-438 after a send that returned
RecordAnnounced(h, s) == [h EXCEPT ![s.ev].ann = Append(s.ann, s.d)]

\* update_countdowns resumes from channel.send(text) (435): records the
\* milestone, saves, and goes on with the next event; a failed send raises
SweepMilestoneSent(oks) ==
    /\ sw.pc = "send_ms"
    /\ IF sw.ok
       THEN LET h1 == RecordAnnounced(heap, sw)
            IN /\ disk' = Snapshot(guilds, h1)
               /\ \E ok \in oks :
                    SweepGoes(MilestoneLoop(guilds, h1, sw, sw.i + 1, now, ok), h1)
       ELSE /\ sw' = SwFailed
            /\ heap' = Collect(heap, guilds, sw')
            /\ sent' = Pruned(sent, heap')
            /\ seen' = Pruned(seen, heap')
            /\ since' = Pruned(since, heap')
            /\ pass' = PassKept(pass, heap')
            /\ whole' = whole
            /\ UNCHANGED <<guilds, disk>>
    /\ UNCHANGED <<now, cmd, ticks, crashes, pins, born, cmd2, up, call, ready, onb, track>>

(* ----------------------- rebuild_pinned_message ------------------------ *)

\* build_embed_for_guild: one field per event of the sorted list, with its name
\* and its date in the guild's time zone (the countdown text is not modelled)
build_embed_for_guild(gs, h, g) ==
    LET L == sort_events(gs.st[g].events, h)
    IN [timezone |-> gs.st[g].timezone,
        fields |-> [k \in 1..Len(L) |-> <<h[L[k]].name, h[L[k]].ts>>]]

\* format_events_list at clock reading t: the lines of /listevents, one per
\* event of the sorted list, numbered from 1 (the remaining-time text is not
\* modelled)
format_events_list(gs, h, g, t) ==
    LET L == sort_events(gs.st[g].events, h)
    IN [k \in 1..Len(L) |->
          [idx |-> k, name |-> h[L[k]].name, ts |-> h[L[k]].ts,
           done |-> compute_time_left(h[L[k]].ts, t).passed]]

\* bot.get_channel(channel_id) of the guild is a text channel
HasChannel(gs, g) == gs.st[g].channel # None

\* lines 337-347 up to the first await: the unpin of the old message when there
\* is one, else the send of the new embed.  Without a channel the command's
\* handler does not call it.
RebuildStart(gs, h, g) ==
    IF ~HasChannel(gs, g) THEN [gs |-> gs, cmd |-> CmdIdle]
    ELSE [gs |-> SortGuild(gs, h, g),
          cmd |-> [pc |-> IF gs.st[g].pinned # None THEN "unpin" ELSE "send",
                   g |-> g, chan |-> gs.st[g].channel, old |-> gs.st[g].pinned,
                   embed |-> IF gs.st[g].pinned # None THEN None
                             ELSE build_embed_for_guild(gs, h, g),
                   msg |-> None]]

\* resumes from fetch_message / unpin (340-344): NotFound and Forbidden are
\* passed over, any other error raises; then build_embed_for_guild, send.
\* found: the old message is unpinned; notfound: it was deleted; forbidden: the
\* unpin is refused and it stays pinned
CmdUnpinned(outcomes) ==
    /\ cmd.pc = "unpin"
    /\ \E o \in outcomes :
         IF o = "error"
         THEN cmd' = CmdIdle /\ guilds' = guilds /\ pins' = pins
         ELSE /\ cmd' = [cmd EXCEPT !.pc = "send", !.old = None,
                                 !.embed = build_embed_for_guild(guilds, heap, cmd.g)]
              /\ guilds' = SortGuild(guilds, heap, cmd.g)
              /\ pins' = IF o = "forbidden" THEN pins ELSE pins \ {cmd.old}
    /\ UNCHANGED <<heap, disk, now, sw, sent, seen, since, pass, whole, ticks, crashes, born,
                   cmd2, up, call, ready, onb, track>>

\* resumes from channel.send(embed=embed) (347) and awaits msg.pin()
CmdEmbedSent(oks) ==
    /\ cmd.pc = "send"
    /\ FreshMsg(guilds, sw, cmd) <= MaxMsgs
    /\ \E ok \in oks :
         cmd' = IF ok THEN [cmd EXCEPT !.pc = "pin", !.msg = FreshMsg(guilds, sw, cmd)]
                ELSE CmdIdle
    /\ UNCHANGED <<guilds, heap, disk, now, sw, sent, seen, since, pass, whole, ticks, crashes,
                   pins, born, cmd2, up, call, ready, onb, track>>

\* (a failed pin leaves the function before line 356)
CmdPinnedOnly(oks) ==
    /\ cmd.pc = "pin"
    /\ \E ok \in oks :
         /\ pins' = IF ok THEN pins \cup {cmd.msg} ELSE pins
         /\ guilds' = IF ok THEN [guilds EXCEPT !.st[cmd.g].pinned = cmd.msg] ELSE guilds
         /\ disk' = IF ok THEN Snapshot(guilds', heap) ELSE disk
    /\ cmd' = CmdIdle
    /\ UNCHANGED <<heap, now, sw, sent, seen, since, pass, whole, ticks, crashes, born, cmd2,
                   up, call, ready, onb, track>>

\* resumes from msg.pin(), whose failure is caught, stores the id and saves
CmdPinned(oks) ==
    /\ cmd.pc = "pin"
    /\ \E ok \in oks : pins' = IF ok THEN pins \cup {cmd.msg} ELSE pins
    /\ guilds' = [guilds EXCEPT !.st[cmd.g].pinned = cmd.msg]
    /\ disk' = Snapshot(guilds', heap)
    /\ cmd' = CmdIdle
    /\ UNCHANGED <<heap, now, sw, sent, seen, since, pass, whole, ticks, crashes, born, cmd2,
                   up, call, ready, onb, track>>

(* ------------------------------ commands ------------------------------- *)

\* the command replaced guild g's "events" by a new list: a sweep suspended in
\* its loop over the old list keeps the old list
Detached(s, gs, g) ==
    IF s.pc = "send_ms" /\ ~s.det /\ SwGuild(s) = g
    THEN [s EXCEPT !.det = TRUE, !.own = gs.st[g].events]
    ELSE s

\* what a command leaves: memory gs and h, file d, the sweep s, its own coroutine
\* c; cut: the (event, day-offset) pairs it took out of an announced list
LeavesCut(gs, h, d, s, c, cut) ==
    /\ up
    /\ guilds' = gs
    /\ heap' = Collect(h, gs, s)
    /\ disk' = d
    /\ sw' = s
    /\ cmd' = c
    /\ sent' = Pruned(sent, heap')
    /\ seen' = Pruned(seen, heap')
    /\ since' = Pruned([k \in DOMAIN since \ cut |-> since[k]], heap')
    /\ pass' = PassKept(pass, heap')
    /\ whole' = WholeKept(whole, gs)
    /\ born' = Reborn(born, gs)
    /\ UNCHANGED <<now, ticks, crashes, pins, cmd2, up, call, ready, onb, track>>

Leaves(gs, h, d, s, c) == LeavesCut(gs, h, d, s, c, {})

\* a handler that ends in rebuild_pinned_message, after its save_state
LeavesRebuilding(gs, h, s, g, cut) ==
    LET r == RebuildStart(gs, h, g)
    IN LeavesCut(r.gs, h, Snapshot(gs, h), s, r.cmd, cut)

\* the index checks of the index-addressed commands, on the sorted list
ValidIndex(events, index) == events # <<>> /\ index >= 1 /\ index <= Len(events)

seteventchannel(g) ==
    LET g0 == get_guild_state(guilds, g)
        g1 == [g0 EXCEPT !.st[g].channel = ChannelOf(g), !.st[g].pinned = None]
        g2 == SortGuild(g1, heap, g)
    IN Leaves(g2, heap, Snapshot(g2, heap), sw, cmd)

resetchannel(g) ==
    LET g0 == get_guild_state(guilds, g)
        g1 == [g0 EXCEPT !.st[g].channel = None, !.st[g].pinned = None]
    IN Leaves(g1, heap, Snapshot(g1, heap), sw, cmd)

\* in a server, by a member who may manage it; ts: the parsed date and time,
\* None when they do not parse
addevent(g, ts, name) ==
    /\ cmd.pc = "idle"
    /\ LET g0 == get_guild_state(guilds, g)
       IN IF g0.st[g].channel = None \/ ts = None
          THEN Leaves(g0, heap, disk, sw, cmd)
          ELSE /\ Len(g0.st[g].events) < MaxEvents
               /\ Ids \ DOMAIN heap # {}
               /\ LET e == FreshId(heap)
                      h1 == [x \in DOMAIN heap \cup {e} |->
                               IF x = e THEN NewEvent(ts, name) ELSE heap[x]]
                      g1 == [g0 EXCEPT !.st[g].events = Append(@, e)]
                      g2 == SortGuild(g1, h1, g)
                  IN LeavesRebuilding(g2, h1, sw, g, {})

removeevent(g, index) ==
    /\ cmd.pc = "idle"
    /\ LET g0 == SortGuild(get_guild_state(guilds, g), heap, g)
           events == g0.st[g].events
       IN IF ~ValidIndex(events, index)
          THEN Leaves(g0, heap, disk, sw, cmd)
          ELSE LET g1 == [g0 EXCEPT !.st[g].events = RemoveAt(events, index)]
               IN LeavesRebuilding(g1, heap, sw, g, {})

\* ts: None when neither date nor time is given, else the parsed instant, or
\* -1 when they do not parse
\* name "": no name given (or an empty one, which "name or ev['name']" treats
\* alike); ts None: no date or time given, -1: one that does not parse
editevent(g, index, name, ts) ==
    /\ cmd.pc = "idle"
    /\ LET g0 == SortGuild(get_guild_state(guilds, g), heap, g)
           events == g0.st[g].events
       IN IF ~ValidIndex(events, index) \/ ts = -1
          THEN Leaves(g0, heap, disk, sw, cmd)
          ELSE LET e == events[index]
                   new == IF ts = None THEN heap[e].ts ELSE ts
                   new_name == strip(IF name # "" THEN name ELSE heap[e].name)
                   h1 == [heap EXCEPT ![e].name = new_name,
                                      ![e].ts = new,
                                      ![e].ann = IF heap[e].ts # new THEN <<>> ELSE @]
               IN LeavesRebuilding(g0, h1, sw, g,
                                   IF heap[e].ts # new THEN {e} \X Int ELSE {})

setmilestones(g, index, raw) ==
    LET g0 == SortGuild(get_guild_state(guilds, g), heap, g)
        events == g0.st[g].events
        p == parse_milestones(raw)
    IN IF ~ValidIndex(events, index) \/ ~p.ok
       THEN Leaves(g0, heap, disk, sw, cmd)
       ELSE LET e == events[index]
                h1 == [heap EXCEPT ![e].ms = p.ms,
                                   ![e].ann = Filter(@, Range(p.ms))]
            IN LeavesCut(g0, h1, Snapshot(g0, h1), sw, cmd,
                         {e} \X (Int \ Range(p.ms)))

resetmilestones(g, index) ==
    LET g0 == SortGuild(get_guild_state(guilds, g), heap, g)
        events == g0.st[g].events
    IN IF ~ValidIndex(events, index)
       THEN Leaves(g0, heap, disk, sw, cmd)
       ELSE LET e == events[index]
                h1 == [heap EXCEPT ![e].ms = DEFAULT_MILESTONES, ![e].ann = <<>>]
            IN LeavesCut(g0, h1, Snapshot(g0, h1), sw, cmd, {e} \X Int)

silence(g, index, on_off) ==
    LET g0 == SortGuild(get_guild_state(guilds, g), heap, g)
        events == g0.st[g].events
    IN IF ~ValidIndex(events, index)
       THEN Leaves(g0, heap, disk, sw, cmd)
       ELSE LET e == events[index]
                h1 == [heap EXCEPT ![e].sil = on_off]
            IN Leaves(g0, h1, Snapshot(g0, h1), sw, cmd)

\* read only: get_guild_state, and format_events_list sorts the list it prints
listevents(g) ==
    LET g0 == SortGuild(get_guild_state(guilds, g), heap, g)
    IN Leaves(g0, heap, disk, sw, cmd)

archivepast(g) ==
    /\ cmd.pc = "idle"
    /\ LET g0 == SortGuild(get_guild_state(guilds, g), heap, g)
           events == g0.st[g].events
           keep == {e \in Range(events) : ~compute_time_left(heap[e].ts, now).passed}
           g1 == [g0 EXCEPT !.st[g].events = Filter(events, keep)]
       IN LeavesRebuilding(g1, heap, Detached(sw, g0, g), g, {})

\* confirm: whether YES was typed
purgeevents(g, confirm) ==
    /\ cmd.pc = "idle"
    /\ IF ~confirm THEN Leaves(guilds, heap, disk, sw, cmd)
       ELSE LET g0 == get_guild_state(guilds, g)
                g1 == [g0 EXCEPT !.st[g].events = <<>>]
            IN LeavesRebuilding(g1, heap, Detached(sw, g0, g), g, {})

settimezone(g, timezone) ==
    /\ cmd.pc = "idle"
    /\ IF timezone \notin ZoneInfo THEN Leaves(guilds, heap, disk, sw, cmd)
       ELSE LET g0 == get_guild_state(guilds, g)
                g1 == [g0 EXCEPT !.st[g].timezone = timezone]
            IN LeavesRebuilding(g1, heap, sw, g, {})

\* read only: the index is checked against the sorted list
eventinfo(g, index) ==
    LET g0 == SortGuild(get_guild_state(guilds, g), heap, g)
    IN Leaves(g0, heap, disk, sw, cmd)

\* up to its await of channel.send(text) (1222); changes no event
testreminder(g, index, days_left) ==
    /\ cmd.pc = "idle"
    /\ LET g0 == SortGuild(get_guild_state(guilds, g), heap, g)
           events == g0.st[g].events
       IN IF ~ValidIndex(events, index) \/ days_left < 0 \/ ~HasChannel(g0, g)
          THEN Leaves(g0, heap, disk, sw, cmd)
          ELSE Leaves(g0, heap, disk, sw,
                      [CmdIdle EXCEPT !.pc = "test", !.g = g, !.chan = g0.st[g].channel])

\* testreminder resumes from channel.send(text), sent or not, and ends
TestReminderSent ==
    /\ cmd.pc = "test"
    /\ cmd' = CmdIdle
    /\ UNCHANGED <<guilds, heap, disk, now, sw, sent, seen, since, pass, whole, ticks, crashes,
                   pins, born, cmd2, up, call, ready, onb, track>>

\* the handler of another command is scheduled: a command arrives while one
\* is suspended in an await, or the one suspended earlier gets its answer first
SwitchCommand ==
    /\ cmd # cmd2
    /\ cmd' = cmd2
    /\ cmd2' = cmd
    /\ UNCHANGED <<guilds, heap, disk, now, sw, sent, seen, since, pass, whole, ticks, crashes,
                   pins, born, up, call, ready, onb, track>>

(* ------------------------- clock and restarts -------------------------- *)

Tick ==
    /\ ticks < MaxTicks
    /\ now' = now + ClockStep
    /\ ticks' = ticks + 1
    /\ UNCHANGED <<guilds, heap, disk, sw, cmd, sent, seen, since, pass, whole, crashes, pins,
                   born, cmd2, up, call, ready, onb, track>>

\* module startup (149-152) on the file as it is: load, sort every guild, save
RECURSIVE SortAll(_, _, _)
SortAll(gs, h, todo) ==
    IF todo = {} THEN gs
    ELSE LET g == CHOOSE x \in todo : TRUE
         IN SortAll(SortGuild(gs, h, g), h, todo \ {g})

\* module startup: state = load_state(), sort_events of every value of
\* state["guilds"] (.items() and .get raise on what is not a map), save_state
Startup(d) ==
    LET data == load_state(d)
    IN IF data.raised \/ data.form # "map"
       THEN [raised |-> TRUE, gs |-> EmptyStore, h |-> <<>>]
       ELSE [raised |-> FALSE, gs |-> SortAll(data.gs, data.h, Created(data.gs)),
             h |-> data.h]

\* the process dies, whatever its coroutines were doing, and starts again
Crash ==
    /\ crashes < MaxCrashes
    /\ crashes' = crashes + 1
    /\ guilds' = Startup(disk).gs
    /\ heap' = Startup(disk).h
    /\ up' = ~Startup(disk).raised
    /\ disk' = IF up' THEN Snapshot(guilds', heap') ELSE disk
    /\ sw' = IF sw.pc = "stopped" THEN SwStopped ELSE SwIdle
    /\ cmd' = CmdIdle
    /\ sent' = Pruned(sent, heap')
    /\ seen' = Pruned(seen, heap')
    /\ since' = Pruned(since, heap')
    /\ pass' = PassKept(pass, heap')
    /\ whole' = {}
    /\ born' = Reborn(born, guilds')
    /\ cmd2' = CmdIdle
    /\ onb' = [g \in Guilds |-> [onb[g] EXCEPT !.dm = 0, !.fb = 0]]
    /\ UNCHANGED <<now, ticks, pins, call, ready, track>>

\* compute_time_left is called on an instant and a clock reading
NoCall == [ts |-> 0, t |-> 0, frac |-> 0, ret |-> [days |-> 0, passed |-> TRUE]]
CallInstants ==
    {0, 1, 2, DAY - 1, DAY, DAY + 1, DAY + 2, 2 * DAY - 1, 2 * DAY, 2 * DAY + 1}
CallReadings == {0, 1, DAY}
CallFractions == {0, 1, 500, 999}
ComputeTimeLeft ==
    /\ \E ts \in CallInstants, t \in CallReadings, frac \in CallFractions :
         call' = [ts |-> ts, t |-> t, frac |-> frac,
                  ret |-> compute_time_left_at(ts, t, frac)]
    /\ UNCHANGED <<guilds, heap, disk, now, sw, cmd, sent, seen, since, pass, whole, ticks,
                   crashes, pins, born, cmd2, up, ready, onb, track>>

(* ----------------------------- onboarding ------------------------------ *)

NoOnboarding == [g \in Guilds |-> [dm |-> 0, fb |-> 0, told |-> 0]]
\* how contact_user.send can end: delivered; Forbidden with a fallback channel
\* to try; Forbidden with none; another HTTPException
DmOutcomes == {"ok", "forbidden", "forbidden_none", "error"}
\* how fallback_channel.send can end
FallbackOutcomes == {"ok", "forbidden", "error"}

\* lines 226-227: welcomed is set and saved
MarkWelcomed(g) ==
    /\ guilds' = [guilds EXCEPT !.st[g].welcomed = TRUE]
    /\ disk' = Snapshot(guilds', heap)

\* send_onboarding_for_guild up to its first await: it goes on to send unless
\* the guild is welcomed (169-170)
send_onboarding_for_guild(gs, g) == ~gs.st[g].welcomed

\* on_guild_join (253-259) up to the await of contact_user.send
on_guild_join(g) ==
    /\ up
    /\ LET g0 == SortGuild(get_guild_state(guilds, g), heap, g)
       IN /\ guilds' = g0
          /\ disk' = Snapshot(g0, heap)
          /\ IF send_onboarding_for_guild(g0, g)
             THEN /\ onb[g].dm + onb[g].fb < MaxJoins
                  /\ onb' = [onb EXCEPT ![g].dm = @ + 1]
             ELSE onb' = onb
    /\ UNCHANGED <<heap, now, sw, cmd, cmd2, up, call, sent, seen, since, pass, whole, ticks,
                   crashes, born, pins, ready, track>>

\* resendsetup (713-721) up to the await of contact_user.send
resendsetup(g) ==
    /\ up
    /\ onb[g].dm + onb[g].fb < MaxJoins
    /\ LET g0 == get_guild_state(guilds, g)
           g1 == [g0 EXCEPT !.st[g].welcomed = FALSE]
       IN /\ guilds' = g1
          /\ disk' = Snapshot(g1, heap)
          /\ onb' = [onb EXCEPT ![g].dm = @ + 1, ![g].told = 0]
    /\ UNCHANGED <<heap, now, sw, cmd, cmd2, up, call, sent, seen, since, pass, whole, ticks,
                   crashes, born, pins, ready, track>>

\* send_onboarding_for_guild resumes from contact_user.send (204-209)
OnboardingDmSent(g, outcomes) ==
    /\ onb[g].dm > 0
    /\ \E o \in outcomes :
         CASE o = "ok" ->
                /\ MarkWelcomed(g)
                /\ onb' = [onb EXCEPT ![g].dm = @ - 1,
                                      ![g].told = Min(@ + 1, SentCap)]
           [] o = "forbidden" ->
                /\ onb' = [onb EXCEPT ![g].dm = @ - 1, ![g].fb = @ + 1]
                /\ UNCHANGED <<guilds, disk>>
           [] o = "forbidden_none" ->
                /\ MarkWelcomed(g)
                /\ onb' = [onb EXCEPT ![g].dm = @ - 1]
           [] OTHER ->
                /\ onb' = [onb EXCEPT ![g].dm = @ - 1]
                /\ UNCHANGED <<guilds, disk>>
    /\ UNCHANGED <<heap, now, sw, cmd, cmd2, up, call, sent, seen, since, pass, whole, ticks,
                   crashes, born, pins, ready, track>>

\* send_onboarding_for_guild resumes from fallback_channel.send (220-227)
OnboardingFallbackSent(g, outcomes) ==
    /\ onb[g].fb > 0
    /\ \E o \in outcomes :
         CASE o = "ok" ->
                /\ MarkWelcomed(g)
                /\ onb' = [onb EXCEPT ![g].fb = @ - 1,
                                      ![g].told = Min(@ + 1, SentCap)]
           [] o = "forbidden" ->
                /\ MarkWelcomed(g)
                /\ onb' = [onb EXCEPT ![g].fb = @ - 1]
           [] OTHER ->
                /\ onb' = [onb EXCEPT ![g].fb = @ - 1]
                /\ UNCHANGED <<guilds, disk>>
    /\ UNCHANGED <<heap, now, sw, cmd, cmd2, up, call, sent, seen, since, pass, whole, ticks,
                   crashes, born, pins, ready, track>>

\* on_ready (232-251): the command tree is synced; update_countdowns is not
\* started, here or anywhere
on_ready ==
    /\ up
    /\ ready' = TRUE
    /\ UNCHANGED <<guilds, heap, disk, now, sw, cmd, cmd2, up, call, sent, seen, since, pass,
                   whole, ticks, crashes, born, pins, onb, track>>

\* DATA_FILE is removed or overwritten from outside the program
FileDamaged ==
    /\ \E form \in Malformed : disk' = Unreadable(form)
    /\ UNCHANGED <<guilds, heap, now, sw, cmd, sent, seen, since, pass, whole, ticks, crashes,
                   pins, born, cmd2, up, call, ready, onb, track>>

(* --------------------------- specifications ---------------------------- *)

BootedLoop(loop) ==
    /\ guilds = EmptyStore
    /\ heap = <<>>
    /\ disk = Snapshot(EmptyStore, <<>>)
    /\ now = 0
    /\ sw = loop
    /\ cmd = CmdIdle
    /\ cmd2 = CmdIdle
    /\ up = TRUE
    /\ ready = (loop.pc # "stopped")
    /\ call = NoCall
    /\ sent = <<>>
    /\ seen = <<>>
    /\ since = <<>>
    /\ pass = <<>>
    /\ whole = {}
    /\ onb = NoOnboarding
    /\ ticks = 0
    /\ crashes = 0
    /\ pins = {}
    /\ born = <<>>

\* ... with the loop of update_countdowns running, between two iterations
Booted == BootedLoop(SwIdle)

Indexes == 0..(MaxEvents + 1)
FetchOutcomes == {"found", "notfound", "error"}

Sweep(outcomes, oks) ==
    \/ SweepStart
    \/ SweepFetched(outcomes)
    \/ SweepEmbedSent(oks)
    \/ SweepPinned(oks)
    \/ SweepEdited(oks)
    \/ SweepMilestoneSent(oks)

Rebuild(outcomes, oks) ==
    \/ CmdUnpinned(outcomes)
    \/ CmdEmbedSent(oks)
    \/ CmdPinned(oks)

Command ==
    \E g \in Guilds :
        \/ seteventchannel(g)
        \/ resetchannel(g)
        \/ \E ts \in Instants \cup {None} : addevent(g, ts, "party")
        \/ \E i \in Indexes : removeevent(g, i)
        \/ \E i \in Indexes, ts \in Instants \cup {None, -1} : editevent(g, i, "", ts)
        \/ \E i \in Indexes, raw \in RawMilestones : setmilestones(g, i, raw)
        \/ \E i \in Indexes : resetmilestones(g, i)
        \/ \E i \in Indexes, b \in BOOLEAN : silence(g, i, b)
        \/ listevents(g)
        \/ archivepast(g)
        \/ \E c \in BOOLEAN : purgeevents(g, c)
        \/ \E tz \in ZoneNames : settimezone(g, tz)
        \/ \E i \in Indexes : eventinfo(g, i)
        \/ \E i \in Indexes, d \in TestDays : testreminder(g, i, d)

\* a guild set up by seteventchannel and n addevent commands, whose summary is
\* pinned: events 1..n in the order of their instants, nothing announced yet
Populated(n) ==
    \E ts \in [1..n -> Instants] :
        /\ \A k \in 1..(n - 1) : ts[k] <= ts[k + 1]
        /\ heap = [e \in 1..n |-> NewEvent(ts[e], "party")]
        /\ guilds = [order |-> <<1>>,
                     st |-> [g \in {1} |->
                               [channel |-> ChannelOf(1), pinned |-> 1,
                                events |-> [k \in 1..n |-> k],
                                timezone |-> "America/Chicago", welcomed |-> TRUE]]]
        /\ disk = Snapshot(guilds, heap)
        /\ now = 0
        /\ sw = SwIdle
        /\ cmd = CmdIdle
        /\ cmd2 = CmdIdle
        /\ up = TRUE
        /\ ready = TRUE
        /\ call = NoCall
        /\ sent = <<>>
        /\ seen = <<>>
        /\ since = <<>>
        /\ pass = <<>>
        /\ whole = {}
        /\ onb = NoOnboarding
        /\ ticks = 0
        /\ crashes = 0
        /\ pins = {1}
        /\ born = [k \in 1..n |-> k]

\* the whole program from its first start
Init == Booted /\ track = {}

Next ==
    \/ Sweep(FetchOutcomes, BOOLEAN)
    \/ Rebuild(FetchOutcomes, BOOLEAN)
    \/ TestReminderSent
    \/ SwitchCommand
    \/ FileDamaged
    \/ ComputeTimeLeft
    \/ on_ready
    \/ \E g \in Guilds :
        \/ on_guild_join(g)
        \/ resendsetup(g)
        \/ OnboardingDmSent(g, DmOutcomes)
        \/ OnboardingFallbackSent(g, FallbackOutcomes)
    \/ Command
    \/ Tick
    \/ Crash

Spec == Init /\ [][Next]_vars

\* sweeps of a working Notifier as the clock advances, no command
InitSweeps == Populated(MaxEvents) /\ track = {"sent", "seen"}
NextSweeps == Sweep({"found", "notfound"}, {TRUE}) \/ Tick
SpecSweeps == InitSweeps /\ [][NextSweeps]_vars

\* sweeps of a working Notifier whose summary message is in place, and the
\* commands on an event's milestones, run while a sweep is idle or suspended
InitRace == Populated(MaxEvents) /\ track = {}
NextRace ==
    \/ SweepStart
    \/ SweepFetched({"found"})
    \/ SweepEdited({TRUE})
    \/ SweepMilestoneSent({TRUE})
    \/ \E i \in Indexes, raw \in RawMilestones : setmilestones(1, i, raw)
    \/ \E i \in Indexes : resetmilestones(1, i)
    \/ \E i \in Indexes, b \in BOOLEAN : silence(1, i, b)
    \/ Tick
SpecRace == InitRace /\ [][NextRace]_vars

\* the same for one event with the logs kept, and editevent, which ends in a
\* rebuild of the summary
InitEdits == Populated(1) /\ track = {"sent", "since"}
NextEdits ==
    \/ NextRace
    \/ \E i \in Indexes, ts \in Instants \cup {None, -1} : editevent(1, i, "", ts)
    \/ CmdUnpinned({"found"})
    \/ CmdEmbedSent({TRUE})
    \/ CmdPinned({TRUE})
SpecEdits == InitEdits /\ [][NextEdits]_vars

\* sweeps whose Notifier calls may fail, as the clock advances
InitFail == Populated(MaxEvents) /\ track = {}
NextFail == Sweep({"found", "notfound"}, BOOLEAN) \/ Tick
SpecFail == InitFail /\ [][NextFail]_vars

\* sweeps of a working Notifier, and a process that may die and start again
InitCrash == Populated(MaxEvents) /\ track = {"sent"}
NextCrash ==
    \/ SweepStart
    \/ SweepFetched({"found"})
    \/ SweepEdited({TRUE})
    \/ SweepMilestoneSent({TRUE})
    \/ Tick
    \/ Crash
SpecCrash == InitCrash /\ [][NextCrash]_vars

\* from the first start: the commands that set up a guild and its list, and
\* their rebuilds of the summary; no sweep
InitStore == Booted /\ track = {}
NextStore ==
    \/ seteventchannel(1)
    \/ resetchannel(1)
    \/ \E ts \in Instants \cup {None} : addevent(1, ts, "party")
    \/ \E i \in Indexes : removeevent(1, i)
    \/ listevents(1)
    \/ Rebuild({"found", "notfound", "forbidden"}, BOOLEAN)
SpecStore == InitStore /\ [][NextStore]_vars

\* the index-addressed commands on a guild with events; resetchannel, after
\* which editevent leaves the list as it is
InitIndex == Populated(MaxEvents) /\ track = {}
NextIndex ==
    \/ \E i \in Indexes : removeevent(1, i)
    \/ \E i \in Indexes : eventinfo(1, i)
    \/ \E i \in Indexes, ts \in Instants \cup {None, -1} : editevent(1, i, "", ts)
    \/ \E i \in Indexes, raw \in RawMilestones : setmilestones(1, i, raw)
    \/ \E i \in Indexes : resetmilestones(1, i)
    \/ \E i \in Indexes, b \in BOOLEAN : silence(1, i, b)
    \/ \E i \in Indexes, d \in TestDays : testreminder(1, i, d)
    \/ TestReminderSent
    \/ resetchannel(1)
    \/ Rebuild({"found"}, {TRUE})
SpecIndex == InitIndex /\ [][NextIndex]_vars

\* a guild whose channel is set: addevent, editevent, removeevent and the reads
\* (listevents, the summary, the sweep), with a working Notifier
InitEvents == Populated(0) /\ track = {}
NextEvents ==
    \/ \E ts \in Instants \cup {None} : addevent(1, ts, "party")
    \/ \E i \in Indexes, ts \in Instants \cup {None, -1} : editevent(1, i, "", ts)
    \/ \E i \in Indexes : removeevent(1, i)
    \/ listevents(1)
    \/ Rebuild({"found"}, {TRUE})
    \/ SweepStart
    \/ SweepFetched({"found"})
    \/ SweepEdited({TRUE})
    \/ SweepMilestoneSent({TRUE})
    \/ Tick
SpecEvents == InitEvents /\ [][NextEvents]_vars

\* from the first start: commands whose input may fail validation, with the
\* commands that bring the guild into the states they are issued in
InitReject == Booted /\ track = {}
NextReject ==
    \/ seteventchannel(1)
    \/ resetchannel(1)
    \/ \E ts \in Instants \cup {None} : addevent(1, ts, "party")
    \/ \E i \in Indexes, ts \in Instants \cup {-1} : editevent(1, i, "", ts)
    \/ \E i \in Indexes, raw \in RawMilestones : setmilestones(1, i, raw)
    \/ \E tz \in ZoneNames : settimezone(1, tz)
    \/ \E c \in BOOLEAN : purgeevents(1, c)
    \/ Rebuild({"found"}, {TRUE})
SpecReject == InitReject /\ [][NextReject]_vars

\* the commands that rebuild the summary, two handlers at a time, in a guild
\* with a channel and no failing request
InitRebuild == Populated(1) /\ track = {}
NextRebuild ==
    \/ \E ts \in Instants : addevent(1, ts, "party")
    \/ \E i \in Indexes : removeevent(1, i)
    \/ \E i \in Indexes, ts \in Instants : editevent(1, i, "", ts)
    \/ \E c \in BOOLEAN : purgeevents(1, c)
    \/ \E tz \in ZoneNames : settimezone(1, tz)
    \/ Rebuild({"found"}, {TRUE})
    \/ SwitchCommand
SpecRebuild == InitRebuild /\ [][NextRebuild]_vars

\* restarts on the file as the program or somebody else left it
InitLoad == Booted /\ track = {}
NextLoad ==
    \/ seteventchannel(1)
    \/ \E ts \in Instants : addevent(1, ts, "party")
    \/ \E i \in Indexes : removeevent(1, i)
    \/ Rebuild({"found"}, {TRUE})
    \/ FileDamaged
    \/ Crash
SpecLoad == InitLoad /\ [][NextLoad]_vars

\* sweeps of a guild whose list grows and is re-sorted meanwhile
InitPass == Populated(1) /\ track = {"pass"}
NextPass ==
    \/ SweepStart
    \/ SweepFetched({"found"})
    \/ SweepEdited({TRUE})
    \/ SweepMilestoneSent({TRUE})
    \/ \E ts \in Instants : addevent(1, ts, "party")
    \/ listevents(1)
    \/ Rebuild({"found"}, {TRUE})
    \/ Tick
SpecPass == InitPass /\ [][NextPass]_vars

\* the program from its first start, the loop of update_countdowns as the
\* source leaves it
InitLoop == BootedLoop(SwStopped) /\ track = {}
NextLoop ==
    \/ on_ready
    \/ seteventchannel(1)
    \/ \E ts \in Instants : addevent(1, ts, "party")
    \/ \E i \in Indexes : removeevent(1, i)
    \/ Rebuild({"found"}, {TRUE})
    \/ Tick
SpecLoop == InitLoop /\ [][NextLoop]_vars

\* sweeps of a guild whose channel is cleared at some time and whose list is
\* edited and purged
InitScope == Populated(MaxEvents) /\ track = {}
NextScope ==
    \/ SweepStart
    \/ SweepFetched({"found"})
    \/ SweepEdited({TRUE})
    \/ SweepMilestoneSent({TRUE})
    \/ resetchannel(1)
    \/ \E i \in 1..MaxEvents, ts \in Instants : editevent(1, i, "", ts)
    \/ purgeevents(1, TRUE)
    \/ Rebuild({"found"}, {TRUE})
SpecScope == InitScope /\ [][NextScope]_vars

\* events are added and their milestones set and reset
InitMilestones == Populated(1) /\ track = {}
NextMilestones ==
    \/ \E ts \in Instants : addevent(1, ts, "party")
    \/ \E i \in Indexes : removeevent(1, i)
    \/ \E i \in Indexes, raw \in TypedMilestones : setmilestones(1, i, raw)
    \/ \E i \in Indexes : resetmilestones(1, i)
    \/ Rebuild({"found"}, {TRUE})
SpecMilestones == InitMilestones /\ [][NextMilestones]_vars

\* events are added and edited under every kind of name
InitNames == Populated(0) /\ track = {}
NextNames ==
    \/ \E ts \in Instants, name \in Names : addevent(1, ts, name)
    \/ \E i \in Indexes, name \in Names, ts \in Instants \cup {None} :
          editevent(1, i, name, ts)
    \/ \E i \in Indexes : removeevent(1, i)
    \/ Rebuild({"found"}, {TRUE})
SpecNames == InitNames /\ [][NextNames]_vars

\* the guild is joined, also again while it is being welcomed, and set up;
\* every send ends as Discord answers it, without other errors
InitJoin == Booted /\ track = {}
NextJoin ==
    \/ on_guild_join(1)
    \/ resendsetup(1)
    \/ OnboardingDmSent(1, {"ok", "forbidden", "forbidden_none"})
    \/ OnboardingFallbackSent(1, {"ok", "forbidden"})
    \/ seteventchannel(1)
    \/ resetchannel(1)
    \/ \E tz \in ZoneNames : settimezone(1, tz)
    \/ Tick
SpecJoin == InitJoin /\ [][NextJoin]_vars

\* sweeps of a working Notifier over one event, and editevent with a name, an
\* instant, both or neither, run while a sweep is idle or suspended
InitInstant == Populated(1) /\ track = {}
NextInstant ==
    \/ SweepStart
    \/ SweepFetched({"found"})
    \/ SweepEdited({TRUE})
    \/ SweepMilestoneSent({TRUE})
    \/ \E i \in Indexes, name \in Names, ts \in Instants \cup {None} :
         editevent(1, i, name, ts)
    \/ CmdUnpinned({"found"})
    \/ CmdEmbedSent({TRUE})
    \/ CmdPinned({TRUE})
    \/ Tick
SpecInstant == InitInstant /\ [][NextInstant]_vars

\* sweeps of a working Notifier, and the commands that take events out of the
\* list, run while a sweep is idle or suspended
InitRemoved == Populated(MaxEvents) /\ track = {}
NextRemoved ==
    \/ SweepStart
    \/ SweepFetched({"found"})
    \/ SweepEdited({TRUE})
    \/ SweepMilestoneSent({TRUE})
    \/ purgeevents(1, TRUE)
    \/ archivepast(1)
    \/ \E i \in 1..MaxEvents : removeevent(1, i)
    \/ Rebuild({"found"}, {TRUE})
    \/ Tick
SpecRemoved == InitRemoved /\ [][NextRemoved]_vars

\* sweeps of a working Notifier at one clock reading, and the commands that
\* change the length of the list, run while a sweep is idle or suspended
InitSkip == Populated(MaxEvents) /\ track = {"whole"}
NextSkip ==
    \/ SweepStart
    \/ SweepFetched({"found"})
    \/ SweepEdited({TRUE})
    \/ SweepMilestoneSent({TRUE})
    \/ \E i \in 1..MaxEvents : removeevent(1, i)
    \/ \E ts \in Instants : addevent(1, ts, "party")
    \/ Rebuild({"found"}, {TRUE})
SpecSkip == InitSkip /\ [][NextSkip]_vars

\* sweeps and rebuilds of a working Notifier whose summary message may have
\* been deleted, and the commands on the channel, run while a sweep or a
\* rebuild is idle or suspended
InitChannel == Populated(1) /\ track = {}
NextChannel ==
    \/ Sweep({"found", "notfound"}, {TRUE})
    \/ seteventchannel(1)
    \/ resetchannel(1)
    \/ \E ts \in Instants : addevent(1, ts, "party")
    \/ Rebuild({"found", "notfound"}, {TRUE})
SpecChannel == InitChannel /\ [][NextChannel]_vars

\* an event as json.load (76-77) takes it from a state file that holds, next
\* to the keys addevent writes, a repeat interval in days, its anchor day and
\* the days a repeat reminder was recorded for; save_state writes them back
Repeating(ev, n, a) ==
    ev @@ [repeat_every_days |-> n, repeat_anchor_date |-> a,
           announced_repeat_dates |-> <<>>]

\* sweeps and setmilestones over one event the state file holds with a repeat
\* interval of one day, anchored on the day the process started
InitRepeat ==
    /\ heap = [e \in {1} |-> Repeating(NewEvent(DAY + ClockStep, "party"), 1, 0)]
    /\ guilds = [order |-> <<1>>,
                 st |-> [g \in {1} |->
                           [channel |-> ChannelOf(1), pinned |-> 1, events |-> <<1>>,
                            timezone |-> "America/Chicago", welcomed |-> TRUE]]]
    /\ disk = Snapshot(guilds, heap)
    /\ now = 0
    /\ sw = SwIdle
    /\ cmd = CmdIdle
    /\ cmd2 = CmdIdle
    /\ up = TRUE
    /\ ready = TRUE
    /\ call = NoCall
    /\ sent = <<>>
    /\ seen = <<>>
    /\ since = <<>>
    /\ pass = <<>>
    /\ whole = {}
    /\ onb = NoOnboarding
    /\ ticks = 0
    /\ crashes = 0
    /\ pins = {1}
    /\ born = <<1>>
    /\ track = {"pass"}
NextRepeat ==
    \/ SweepStart
    \/ SweepFetched({"found"})
    \/ SweepEdited({TRUE})
    \/ SweepMilestoneSent({TRUE})
    \/ \E raw \in RawMilestones : setmilestones(1, 1, raw)
    \/ resetmilestones(1, 1)
    \/ Tick
SpecRepeat == InitRepeat /\ [][NextRepeat]_vars

\* compute_time_left by itself, on instants and readings around its boundaries
InitTimeLeft == Booted /\ track = {}
NextTimeLeft == ComputeTimeLeft
SpecTimeLeft == InitTimeLeft /\ [][NextTimeLeft]_vars

(* ------------------------------- claims -------------------------------- *)

\* this step is a run of update_countdowns that calls channel.send(text)
SendsMilestone == sw'.pc = "send_ms" /\ (sw.pc # "send_ms" \/ sw'.i # sw.i)
\* this step is update_countdowns resuming from channel.send(text)
ResumesFromSend ==
    sw.pc = "send_ms" /\ crashes' = crashes /\ (sw'.pc # "send_ms" \/ sw'.i # sw.i)

\* C1: over any sequence of sweeps, also several at the same daysLeft, the
\* milestone message of a day-offset d is delivered exactly once if some sweep's
\* milestone check found daysLeft = d among the milestones, and never twice.
C1_MilestoneExactlyOnce ==
    /\ \A k \in DOMAIN sent : sent[k] = 1
    /\ \A k \in DOMAIN seen : Count(sent, k[1], k[2]) = 1

\* two sweeps saw the event one day away, a later one on its day: one message each
C1_Witness ==
    \E e \in DOMAIN heap :
        /\ Count(seen, e, 1) >= 2
        /\ Count(sent, e, 1) = 1
        /\ Count(seen, e, 0) >= 1
        /\ Count(sent, e, 0) = 1

\* the milestone message this step sends is for the days_left its event has now
SentForToday ==
    LET tl == compute_time_left(heap'[sw'.ev].ts, now')
    IN ~tl.passed /\ sw'.d = tl.days

\* C2 as claimed: over any sequence of sweeps and commands a day-offset is
\* notified at most once ever for an event, and only as the daysLeft a sweep
\* observes when it sends.
C2_AtMostOnceEver ==
    /\ [](\A k \in DOMAIN sent : sent[k] <= 1)
    /\ [][SendsMilestone => SentForToday]_vars

\* C2 amended: a day-offset is notified at most once for an event as long as no
\* command takes it out of the event's announcedMilestones (editevent with a
\* new instant and resetmilestones empty the list, setmilestones prunes the
\* offsets it drops); and only as the daysLeft a sweep observes when it sends.
C2_AtMostOncePerRecord ==
    /\ [](\A k \in DOMAIN since : since[k] <= 1)
    /\ [][SendsMilestone => SentForToday]_vars

\* a day-offset was notified, a command cut the record, and it was notified again
C2_Witness ==
    \E k \in DOMAIN sent : sent[k] = 2 /\ k \in DOMAIN since /\ since[k] = 1

\* C3: in every reachable state every event's announcedMilestones is a subset
\* of its milestones, also when a command on the milestones runs while the
\* sweep is suspended in the send of a notification for the same event.
C3_AnnouncedSubset ==
    \A e \in Listed(guilds) : Range(heap[e].ann) \subseteq Range(heap[e].ms)

\* this step is not a run of update_countdowns, which is suspended in an await
OtherRunsDuringSweep ==
    /\ sw.pc \notin {"idle", "failed"}
    /\ sw'.pc = sw.pc /\ sw'.i = sw.i /\ sw'.gi = sw.gi

\* C4: between a sweep's first access to the store and its last, no other
\* operation mutates the store.
C4_SweepAtomic ==
    [][OtherRunsDuringSweep => <<guilds, heap, disk>>' = <<guilds, heap, disk>>]_vars

\* C5: when the sweep has decided a milestone notification and its send fails,
\* the day-offset is still recorded in announcedMilestones and persisted.
C5_RecordedDespiteFailure ==
    [][(ResumesFromSend /\ ~sw.ok) =>
          /\ In(sw.d, heap'[sw.ev].ann)
          /\ In(sw.d, disk'.h[sw.ev].ann)]_vars

\* C6: a delivery failure is never raised out of the sweep, and the events after
\* the one whose send failed are still checked and their due milestones sent.
C6_FailureDoesNotBlock ==
    [][/\ sw'.pc # "failed"
       /\ (ResumesFromSend /\ ~sw.ok) =>
             LET j == NextDue(SwList(guilds, sw), heap, sw.i + 1, now)
             IN j # 0 => (sw'.pc = "send_ms" /\ sw'.i = j)]_vars

\* C7: after a crash at any point of a sweep and a restart from the snapshot, no
\* milestone notification delivered before the crash is delivered again.
C7_NoDuplicateAfterCrash ==
    crashes > 0 => \A k \in DOMAIN sent : sent[k] < 2

SweepRuns == sw'.pc # sw.pc \/ sw'.i # sw.i \/ sw'.gi # sw.gi

\* C9: while an event is silenced no sweep sends a milestone notification for it
\* and no sweep changes its announcedMilestones.
C9_SilencedUntouched ==
    [][SweepRuns =>
          \A e \in Listed(guilds) :
              heap[e].sil =>
                  /\ heap'[e].ann = heap[e].ann
                  /\ ~(SendsMilestone /\ sw'.ev = e)]_vars

\* this step is a run of update_countdowns through its loop over the events
ChecksMilestones == (sw.pc = "edit" /\ sw'.pc # "edit") \/ (ResumesFromSend /\ sw.ok)
\* the positions of the loop's list it passes over without sending
PassedOver ==
    (IF sw.pc = "send_ms" THEN sw.i + 1 ELSE 1) ..
    (IF SendsMilestone THEN sw'.i - 1 ELSE Len(SwList(guilds, sw)))

\* C10: in a sweep a milestone notification is sent for an event that is not
\* passed and not silenced exactly if its daysLeft is a milestone not yet
\* announced; after a send that succeeded daysLeft is at the end of the event's
\* announcedMilestones, in memory and in the snapshot, before the next event
\* is examined.
C10_MilestoneCheck ==
    [][/\ SendsMilestone =>
             LET ev == heap'[sw'.ev]
                 tl == compute_time_left(ev.ts, now')
             IN /\ ~tl.passed /\ ~ev.sil /\ sw'.d = tl.days
                /\ In(tl.days, ev.ms) /\ ~In(tl.days, ev.ann)
       /\ ChecksMilestones =>
             \A k \in PassedOver :
                 LET ev == heap'[SwList(guilds, sw)[k]]
                     tl == compute_time_left(ev.ts, now')
                 IN (~tl.passed /\ ~ev.sil) =>
                        ~(In(tl.days, ev.ms) /\ ~In(tl.days, ev.ann))
       /\ (ResumesFromSend /\ sw.ok) =>
             LET ann == heap'[sw.ev].ann
             IN /\ ann # <<>> /\ ann[Len(ann)] = sw.d
                /\ disk'.h[sw.ev].ann = ann]_vars

\* the sweep is sending for the second event, having passed over a first one
\* whose daysLeft is announced and saved
C10_Witness ==
    /\ sw.pc = "send_ms" /\ sw.i = 2 /\ ~sw.det
    /\ LET e == guilds.st[SwGuild(sw)].events[1]
           tl == compute_time_left(heap[e].ts, now)
       IN /\ ~tl.passed /\ ~heap[e].sil
          /\ In(tl.days, heap[e].ms) /\ In(tl.days, heap[e].ann)
          /\ disk.h[e].ann = heap[e].ann

\* no coroutine is suspended: every operation that started has completed
Quiescent == sw.pc \in {"idle", "failed"} /\ cmd.pc = "idle" /\ cmd2.pc = "idle"

\* C11: whenever every operation has completed, the snapshot on disk equals the
\* store in memory (lazily created guilds and re-sorted lists included).
C11_SnapshotIsStore ==
    Quiescent => disk = Snapshot(guilds, heap)

\* C12: whenever every operation has completed, at most one summary message
\* of the guild is pinned, and a pinnedSummaryRef that is set refers to it.
C12_OnePinnedSummary ==
    Quiescent =>
        /\ Cardinality(pins) <= 1
        /\ \A g \in Created(guilds) :
               guilds.st[g].pinned # None => pins = {guilds.st[g].pinned}

\* list L is in non-decreasing order of instant
Sorted(L, h) == \A j, k \in 1..Len(L) : j < k => h[L[j]].ts <= h[L[k]].ts
\* events of equal instant are in L in the order addevent created them
TiesAsInserted(L, h) ==
    \A j, k \in 1..Len(L) :
        (j < k /\ h[L[j]].ts = h[L[k]].ts) =>
            \E a, b \in 1..Len(born) : a < b /\ born[a] = L[j] /\ born[b] = L[k]
\* this step is a run of the sweep's loop over the events (line 416 on)
SweepReadsList == sw.pc \in {"edit", "send_ms"} /\ SweepRuns /\ crashes' = crashes

\* C13: after any sequence of addevent, editevent and removeevent, what a reader
\* that sorts first (listevents, the summary, index resolution) sees, and the
\* list the sweep's loop reads, is in non-decreasing order of instant, with
\* events of equal instant in the order of their insertion.
C13_ReadsSortedStable ==
    /\ [](\A g \in Created(guilds) :
             LET L == sort_events(guilds.st[g].events, heap)
             IN Sorted(L, heap) /\ TiesAsInserted(L, heap))
    /\ [][SweepReadsList =>
             LET L == SwList(guilds, sw)
             IN Sorted(L, heap) /\ TiesAsInserted(L, heap)]_vars

\* (the non-decreasing half of C13 alone)
C13_ReadsSorted ==
    /\ [](\A g \in Created(guilds) :
             Sorted(sort_events(guilds.st[g].events, heap), heap))
    /\ [][SweepReadsList => Sorted(SwList(guilds, sw), heap)]_vars

\* guild 1's list as sort_events leaves it
SortedList == sort_events(guilds.st[1].events, heap)
\* this step changes no event but e
OnlyChanges(e) == \A x \in DOMAIN heap' \ {e} : x \in DOMAIN heap /\ heap'[x] = heap[x]
\* this step adds, removes and changes no event, saves nothing and sends nothing
Rejects ==
    /\ heap' = heap /\ guilds'.st[1].events = SortedList
    /\ disk' = disk /\ cmd' = cmd /\ pins' = pins

\* C14: an index-addressed command resolves its 1-based index on the freshly
\* sorted list: with an index in [1, len] it acts on the event at that place of
\* the sorted list and on no other; with any other index (any index at all on an
\* empty list) it adds, removes and changes no event and sends nothing.
C14_IndexOnSortedList ==
    [][\A i \in Indexes :
         LET L == SortedList
             valid == i \in 1..Len(L)
         IN /\ removeevent(1, i) =>
                 IF valid THEN guilds'.st[1].events = RemoveAt(L, i) /\ OnlyChanges(0)
                 ELSE Rejects
            /\ eventinfo(1, i) => Rejects
            /\ \A ts \in Instants \cup {None, -1} :
                 editevent(1, i, "", ts) =>
                     IF valid /\ ts # -1
                     THEN /\ OnlyChanges(L[i])
                          /\ heap'[L[i]].ts = IF ts = None THEN heap[L[i]].ts ELSE ts
                          /\ Range(guilds'.st[1].events) = Range(L)
                     ELSE Rejects
            /\ \A raw \in RawMilestones :
                 setmilestones(1, i, raw) =>
                     IF valid /\ parse_milestones(raw).ok
                     THEN /\ OnlyChanges(L[i])
                          /\ heap'[L[i]].ms = parse_milestones(raw).ms
                          /\ guilds'.st[1].events = L
                     ELSE Rejects
            /\ resetmilestones(1, i) =>
                 IF valid
                 THEN /\ OnlyChanges(L[i])
                      /\ heap'[L[i]].ms = DEFAULT_MILESTONES
                      /\ guilds'.st[1].events = L
                 ELSE Rejects
            /\ \A b \in BOOLEAN :
                 silence(1, i, b) =>
                     IF valid
                     THEN /\ OnlyChanges(L[i])
                          /\ heap'[L[i]] = [heap[L[i]] EXCEPT !.sil = b]
                          /\ guilds'.st[1].events = L
                     ELSE Rejects
            /\ \A d \in TestDays :
                 testreminder(1, i, d) =>
                     IF valid /\ d >= 0 /\ HasChannel(guilds, 1)
                     THEN heap' = heap /\ guilds'.st[1].events = L /\ cmd'.pc = "test"
                     ELSE Rejects]_vars

\* an editevent on a guild without channel left two events out of order in
\* memory: the next index-addressed command has to sort before it resolves
C14_Witness ==
    /\ Len(guilds.st[1].events) = MaxEvents
    /\ ~Sorted(guilds.st[1].events, heap)
    /\ cmd.pc = "idle"

\* this step is a command that is rejected for its input: a date and time that
\* do not parse, no event channel, a milestone list that does not parse, an
\* unknown time zone, a purge that is not confirmed
RejectedForInput ==
    \/ /\ \E ts \in Instants \cup {None} : addevent(1, ts, "party")
       /\ Listed(guilds') = Listed(guilds)
    \/ \E i \in Indexes : editevent(1, i, "", -1)
    \/ \E i \in Indexes, raw \in RawMilestones :
          ~parse_milestones(raw).ok /\ setmilestones(1, i, raw)
    \/ \E tz \in ZoneNames \ ZoneInfo : settimezone(1, tz)
    \/ purgeevents(1, FALSE)

\* the store as a reader sees it: each guild's record, created if need be, with
\* its list sorted, and the events by value
StoreView(gs, h) ==
    [g \in Guilds |->
        LET r == get_guild_state(gs, g).st[g]
        IN [r EXCEPT !.events = [k \in 1..Len(@) |-> h[sort_events(r.events, h)[k]]]]]

C15_RejectedKeepsView ==
    [][RejectedForInput =>
          /\ StoreView(guilds', heap') = StoreView(guilds, heap)
          /\ disk' = disk /\ cmd' = cmd /\ pins' = pins]_vars

\* this step is the end of a rebuild_pinned_message whose send succeeded
RebuildEnds ==
    cmd.pc = "pin" /\ cmd'.pc = "idle" /\ cmd2' = cmd2 /\ crashes' = crashes

\* C16: a rebuild whose send succeeded ends with pinnedSummaryRef equal to the
\* message it sent and with the store saved, whatever became of the old
\* reference and of the pin.
C16_RebuildStoresNewMessage ==
    [][RebuildEnds =>
          /\ guilds'.st[cmd.g].pinned = cmd.msg
          /\ disk' = Snapshot(guilds', heap')]_vars

\* a rebuild has ended whose pin of the new message failed while an earlier
\* summary is still pinned: the reference is the new message, saved
C16_Witness ==
    /\ cmd.pc = "idle"
    /\ 1 \in Created(guilds)
    /\ guilds.st[1].pinned # None
    /\ guilds.st[1].pinned \notin pins
    /\ pins # {}
    /\ disk.gs.st[1].pinned = guilds.st[1].pinned

\* C17: when the rebuild of a mutating command ends, pinnedSummaryRef is the
\* message the rebuild sent, and that message shows exactly the current
\* events of the guild (the sorted list, in the guild's time zone).
C17_SummaryShowsCurrentEvents ==
    [][RebuildEnds =>
          /\ guilds'.st[cmd.g].pinned = cmd.msg
          /\ cmd.embed = build_embed_for_guild(guilds', heap', cmd.g)]_vars

\* C18: a sweep that finds the referenced summary deleted (NotFound) does not
\* fail: it sends a new summary, stores that message in pinnedSummaryRef and
\* saves, and goes on to the edit and the milestone checks.
C18_DeletedSummaryRecreated ==
    [][/\ (sw.pc = "send_embed" /\ sw' # sw) => sw'.pc = "pin"
       /\ (sw.pc = "pin" /\ sw' # sw) =>
             /\ guilds'.st[SwGuild(sw)].pinned = sw.msg
             /\ disk' = Snapshot(guilds', heap')
             /\ sw'.pc = "edit"
       /\ (sw.pc = "edit" /\ sw' # sw) => sw'.pc # "failed"]_vars

Restarts == crashes' = crashes + 1

\* C19: a start never fails, and a start on a missing or malformed file ends
\* with the program running on an empty store.
C19_LoadNeverFails ==
    [][Restarts => /\ up'
                   /\ disk.form \in Malformed => guilds' = EmptyStore /\ heap' = <<>>]_vars

\* the part that holds: a start on a missing file or on text that is not JSON
\* ends with the program running on an empty store, which it saves
C19_MissingOrUnparseableLoadsEmpty ==
    [][(Restarts /\ disk.form \in {"missing", "unparseable"}) =>
          /\ up'
          /\ guilds' = EmptyStore /\ heap' = <<>>
          /\ disk' = Snapshot(EmptyStore, <<>>)]_vars

\* the instant of the call is at or before its clock reading; the time from
\* the reading to the instant, in thousandths of a second
CallNotAfter == call.ts * MILLI <= call.t * MILLI + call.frac
CallAhead == call.ts * MILLI - (call.t * MILLI + call.frac)

\* C20: compute_time_left gives passed exactly when instant <= now, then with
\* daysLeft 0; otherwise daysLeft is the whole days of instant - now, so that
\* less than 24 hours ahead is daysLeft 0 and not passed; daysLeft is never
\* negative.
C20_TimeLeft ==
    /\ call.ret.passed <=> CallNotAfter
    /\ call.ret.passed => call.ret.days = 0
    /\ ~call.ret.passed => call.ret.days = CallAhead \div (DAY * MILLI)
    /\ (CallAhead > 0 /\ CallAhead < DAY * MILLI) =>
          call.ret.days = 0 /\ ~call.ret.passed
    /\ call.ret.days >= 0

\* the same with passed given exactly when the instant is less than one second
\* after now
C20_TimeLeftToTheSecond ==
    /\ call.ret.passed <=> CallAhead < MILLI
    /\ call.ret.passed => call.ret.days = 0
    /\ ~call.ret.passed => call.ret.days = CallAhead \div (DAY * MILLI)
    /\ (CallAhead >= MILLI /\ CallAhead < DAY * MILLI) =>
          call.ret.days = 0 /\ ~call.ret.passed
    /\ call.ret.days >= 0

\* C21: in one sweep pass at most one alert is delivered for any one event.
C21_OneAlertPerEventAndPass == \A e \in DOMAIN pass : pass[e] <= 1

\* C22: once the process is running and on_ready has run, the loop of the
\* sweep is started, so that it executes every 60 s and a milestone that is
\* due is eventually notified.
C22_SweepLoopRuns == (up /\ ready) => sw.pc # "stopped"

\* the sweep is in a guild's turn; this step takes it to a guild's turn
InGuild(s) == s.pc \notin {"idle", "failed", "stopped"}
ReachesGuild ==
    /\ crashes' = crashes
    /\ sw'.pc \in {"fetch", "send_embed"}
    /\ sw.pc \notin {"fetch", "send_embed"}

\* C23 as stated: the sweep takes up only guilds with an event channel and at
\* least one event; a guild with no channel or with no event is neither
\* changed nor taken up by a sweep.
C23_SweepOnlyWithChannelAndEvents ==
    /\ [][ReachesGuild =>
            /\ guilds'.st[SwGuild(sw')].channel # None
            /\ guilds'.st[SwGuild(sw')].events # <<>>]_vars
    /\ [][SweepStart =>
            \A g \in Created(guilds) :
                (guilds.st[g].channel = None \/ guilds.st[g].events = <<>>) =>
                    /\ guilds'.st[g] = guilds.st[g]
                    /\ InGuild(sw') => SwGuild(sw') # g]_vars

\* C23, amended: the sweep takes up only guilds that have an event channel
\* when it reaches them, with or without events; a guild it finds without a
\* channel gets no Notifier call and no change but the sort of its list in
\* memory.
C23_SweepOnlyWithChannel ==
    /\ [][ReachesGuild => guilds'.st[SwGuild(sw')].channel # None]_vars
    /\ [][SweepStart =>
            \A g \in Created(guilds) :
                guilds.st[g].channel = None =>
                    /\ guilds'.st[g] = SortGuild(guilds, heap, g).st[g]
                    /\ \A e \in Range(guilds.st[g].events) : heap'[e] = heap[e]
                    /\ disk' = disk /\ pins' = pins
                    /\ InGuild(sw') => SwGuild(sw') # g]_vars

\* a sweep has passed over the guild, which has no channel: its list is
\* sorted in memory, and the file has it as the last command left it
C23_Witness ==
    /\ sw.pc = "idle"
    /\ guilds.st[1].channel = None
    /\ guilds.st[1].events = sort_events(guilds.st[1].events, heap)
    /\ disk.gs.st[1].events # guilds.st[1].events

NoDup(s) == \A i, j \in DOMAIN s : s[i] = s[j] => i = j
FirstAt(s, x) == CHOOSE i \in DOMAIN s : s[i] = x /\ \A j \in 1..(i - 1) : s[j] # x
\* the list ms holds the values of the list typed once each, in the order in
\* which they first occur there
OnceEachInOrder(ms, typed) ==
    /\ NoDup(ms)
    /\ Range(ms) = Range(typed)
    /\ \A i, j \in DOMAIN ms : i < j => FirstAt(typed, ms[i]) < FirstAt(typed, ms[j])
\* the list typed has a token that is no integer, or a negative one, or none
Unacceptable(raw) ==
    \/ \E k \in DOMAIN raw : raw[k] # "" /\ ~IsInt(raw[k])
    \/ \E k \in DOMAIN raw : IsInt(raw[k]) /\ int(raw[k]) < 0
    \/ \A k \in DOMAIN raw : raw[k] = ""

\* C24: every event's milestones is a duplicate-free list of non-negative
\* integers; addevent and resetmilestones install the default list;
\* setmilestones installs the values typed, once each in first-occurrence
\* order, and rejects an empty list, a non-integer and a negative value.
C24_MilestonesWellFormed ==
    /\ [](\A e \in Listed(guilds) :
            NoDup(heap[e].ms) /\ \A k \in DOMAIN heap[e].ms : heap[e].ms[k] \in Nat)
    /\ [][\A e \in Listed(guilds') \ Listed(guilds) :
              heap'[e].ms = DEFAULT_MILESTONES]_vars
    /\ [][\A i \in Indexes :
            LET L == SortedList
            IN (resetmilestones(1, i) /\ ValidIndex(L, i)) =>
                  heap'[L[i]].ms = DEFAULT_MILESTONES]_vars
    /\ [][\A i \in Indexes, raw \in TypedMilestones :
            LET L == SortedList
                typed == SelectSeq(raw, LAMBDA p : p # "")
            IN setmilestones(1, i, raw) =>
                  IF Unacceptable(raw) \/ ~ValidIndex(L, i)
                  THEN \A e \in Listed(guilds) : heap'[e].ms = heap[e].ms
                  ELSE OnceEachInOrder(heap'[L[i]].ms,
                                       [k \in DOMAIN typed |-> int(typed[k])])]_vars

\* an event has the list 1, 0, which setmilestones installed, next to an
\* event with the default list
C24_Witness ==
    \E e, f \in Listed(guilds) :
        heap[e].ms = <<1, 0>> /\ heap[f].ms = DEFAULT_MILESTONES

\* C25: every event's name is a non-empty string, whatever names addevent and
\* editevent were given.
C25_NamesNotEmpty == \A e \in Listed(guilds) : heap[e].name # ""

\* C26: removeevent with index i on a list of n events removes the i-th event
\* of the sorted list and no other; a listing then shows the other n-1
\* events, unchanged and in sorted order, numbered 1..n-1.
C26_RemovesTheIndexed ==
    [][\A i \in Indexes :
          LET L == SortedList
              before == format_events_list(guilds, heap, 1, now)
              after == format_events_list(guilds', heap', 1, now')
          IN (removeevent(1, i) /\ ValidIndex(L, i)) =>
                /\ sort_events(guilds'.st[1].events, heap') =
                      [k \in 1..(Len(L) - 1) |-> L[IF k < i THEN k ELSE k + 1]]
                /\ \A e \in Range(L) \ {L[i]} : heap'[e] = heap[e]
                /\ Len(after) = Len(L) - 1
                /\ \A k \in 1..Len(after) :
                      after[k] = [before[IF k < i THEN k ELSE k + 1] EXCEPT !.idx = k]]_vars

\* a removeevent has taken one event out of the full list
C26_Witness ==
    /\ Len(guilds.st[1].events) = MaxEvents - 1
    /\ disk.gs.st[1].events = guilds.st[1].events

\* C27: the onboarding message is delivered at most once per guild until
\* resendsetup resets the flag, also when guild-join handlers overlap; a
\* handler's attempt, successful or not, ends with welcomed set and saved.
C27_WelcomedOnce ==
    /\ [](\A g \in Guilds : onb[g].told <= 1)
    /\ [][\A g \in Guilds :
            (crashes' = crashes /\ onb'[g].dm + onb'[g].fb < onb[g].dm + onb[g].fb) =>
                guilds'.st[g].welcomed /\ disk'.gs.st[g].welcomed]_vars

\* the day of the clock reading t, as a day number
today(t) == t \div DAY
\* a repeat reminder is due for the event at the clock reading t
RepeatDue(ev, t) ==
    /\ "repeat_every_days" \in DOMAIN ev
    /\ today(t) - ev.repeat_anchor_date > 0
    /\ (today(t) - ev.repeat_anchor_date) % ev.repeat_every_days = 0
    /\ ~ev.sil
    /\ ~compute_time_left(ev.ts, t).passed

\* C28: an event with a repeat interval of N days gets its repeat reminder on
\* the days that are a positive multiple of N after the anchor: a sweep pass
\* that ends on such a day has notified about the event (the reminder, or the
\* milestone alert sent in its place), or the day is among the event's
\* recorded repeat dates because an earlier pass of the day did.
C28_RepeatOnDueDays ==
    [][\A e \in Listed(guilds) \cap Listed(guilds') :
          (/\ sw.pc # "idle" /\ sw'.pc = "idle"
           /\ RepeatDue(heap[e], now) /\ RepeatDue(heap'[e], now')) =>
              \/ e \in DOMAIN pass' /\ pass'[e] >= 1
              \/ In(today(now'), heap'[e].announced_repeat_dates)]_vars

\* an edit that changes an event's instant leaves its announcedMilestones
\* empty, in memory and in the snapshot; an edit that gives no instant leaves
\* every announcedMilestones as it was
EditCutsAnnounced ==
    /\ \A e \in Listed(guilds) \cap Listed(guilds') :
          heap'[e].ts # heap[e].ts =>
              heap'[e].ann = <<>> /\ disk'.h[e].ann = <<>>
    /\ (\E i \in Indexes, name \in Names : editevent(1, i, name, None)) =>
          \A e \in Listed(guilds) : heap'[e].ann = heap[e].ann
\* the sweep, resuming from the send of a notification, adds at most the
\* day-offset it sent to the announcedMilestones the event has by now
ResumeKeepsCut ==
    (sw.pc = "send_ms" /\ sw.ok /\ sw' # sw /\ crashes' = crashes) =>
        Range(heap'[sw.ev].ann) \subseteq Range(heap[sw.ev].ann) \cup {sw.d}

\* C29: after editevent changes an event's instant its announcedMilestones
\* holds no day-offset announced for the old instant: the edit leaves it empty,
\* and a sweep that was suspended in a send for the event while the edit ran
\* does not bring the entries from before the edit back when it resumes; an
\* edit of the name alone leaves announcedMilestones unchanged.
C29_EditForgetsOldInstant == [][EditCutsAnnounced /\ ResumeKeepsCut]_vars

\* C30: the sweep sends a milestone notification only for an event that is in
\* its guild's event list at the moment of sending: for the events that
\* purgeevents, archivepast or removeevent took out while the sweep was
\* suspended in a send, the resumed sweep sends nothing.
C30_NoAlertForRemoved ==
    [][SendsMilestone => sw'.ev \in Range(guilds'.st[SwGuild(sw')].events)]_vars

\* this step ends a sweep pass
PassEnds == sw.pc \notin {"idle", "failed", "stopped"} /\ sw'.pc = "idle" /\ crashes' = crashes

\* C31: every event that is in its guild's list for the whole of a sweep pass
\* gets that pass's milestone check, whatever removeevent and addevent do to
\* the list while the sweep is suspended in a send: with the clock standing
\* still and every send succeeding, no such event has a milestone due when the
\* pass ends.
C31_NoEventSkipped ==
    [][PassEnds => \A e \in whole' : ~MilestoneDue(heap'[e], now')]_vars

\* C32: in every reachable state a guild without an event channel has no
\* pinned summary reference (seteventchannel and resetchannel clear it, and a
\* sweep or rebuild that was suspended meanwhile does not store one
\* afterwards), so that a reference that is set is to a message of the
\* channel configured now.
C32_NoSummaryWithoutChannel ==
    \A g \in Created(guilds) :
        guilds.st[g].channel = None => guilds.st[g].pinned = None

\* C33: in every reachable state no event's announcedMilestones holds a
\* day-offset twice, in memory or in the snapshot, whatever the interleaving
\* of sweeps with setmilestones, resetmilestones and editevent.
C33_AnnouncedOnce ==
    /\ \A e \in Listed(guilds) : NoDup(heap[e].ann)
    /\ disk.form = "map" => \A e \in DOMAIN disk.h : NoDup(disk.h[e].ann)

\* a day-offset was notified twice, a command having cut it from the list in
\* between, and the list holds it next to another offset
C33_Witness ==
    \E e \in Listed(guilds) : \E d \in Range(heap[e].ann) :
        /\ <<e, d>> \in DOMAIN sent /\ sent[<<e, d>>] = 2
        /\ Len(heap[e].ann) >= 2

====
